---- MODULE Spec2Model ----
(***************************************************************************)
(* Model of the rust-rst lexer: the token taxonomy and the token stream    *)
(* (src/src/tokens.rs), the character sources and the position algebra     *)
(* (src/src/location.rs).                                                  *)
(*                                                                         *)
(* A character is a one-character string; the Unicode characters that the  *)
(* code names are written by their code point ("U+2022").  An Option is a  *)
(* sequence of length 0 (None) or 1 (Some).  The backtick is written      *)
(* "U+0060", since a TLA+ string cannot hold it.                           *)
(***************************************************************************)
EXTENDS Integers, Sequences, FiniteSets, TLC

VARIABLES
    text,       \* the characters the underlying reader R holds
    script,     \* what R does on its 1st, 2nd, ... read_line (then "ok")
    ts,         \* the TokenStream (buffer, chars, and the span threading)
    out,        \* history: the items returned by TokenStream::next so far
    treader,    \* ReaderSource.reader : Option<R>
    rcalls,     \* history: results of ReaderSource::chars
    opens,      \* history: results of TokenStream::try_new on the ReaderSource
    tbuffer,    \* TextSource.buffer : &str
    tcalls,     \* history: results of TextSource::chars
    titer,      \* the TextChars iterator held by the caller : Option<str::Chars>
    tyield,     \* history: characters yielded by the iterator now held
    loc,        \* position algebra: a Location
    path,       \* history: the characters loc was advanced over
    mark,       \* position algebra: a saved copy of an earlier Location
    span,       \* position algebra: a Span
    spanOk,     \* history: every span_to that built span got an end >= its start
    rchars,     \* a ReaderChars iterator pulled directly by a caller
    chist,      \* history: what each ReaderChars::next did and returned
    tchars,     \* a TextChars iterator over the same text
    thist,      \* history: what each TextChars::next returned
    tok,        \* a Token handed to the predicates and numeral decoders
    numberOf,   \* the number tok's word was written from (0: from none)
    cls,        \* Option: the results of the predicates on tok
    num         \* Option: the results of the numeral decoders on tok

streamVars == <<text, script, ts, out>>
sourceVars == <<treader, rcalls, opens, tbuffer, tcalls, titer, tyield>>
algebraVars == <<loc, path, mark, span, spanOk>>
charsVars == <<rchars, chist, tchars, thist>>
tokenVars == <<tok, numberOf, cls, num>>
vars == <<text, script, ts, out, treader, rcalls, opens, tbuffer, tcalls,
          titer, tyield, loc, path, mark, span, spanOk,
          rchars, chist, tchars, thist, tok, numberOf, cls, num>>

-----------------------------------------------------------------------------
(* Bounds *)

MaxLen == 3
MaxScript == 2
MaxPulls == 5
MaxOffset == 4
MaxCalls == 3
MaxWord == 4
MaxMixed == 3
MaxDigits == 3
MaxNumeral == 3999
MaxCharPulls == 5

\* Characters of the inputs: two word characters, a punctuation character,
\* a whitespace character and the newline.
Alphabet == {"a", "1", "-", " ", "\n"}

\* Characters the position algebra is driven with.
AlgAlphabet == {"a", "\n"}

\* Outcomes of one read_line on R: a line, an error before anything was
\* consumed, an error after one character was consumed, end of file reported
\* although R has more to give later.
Outcomes == {"ok", "err", "errPartial", "eof"}

RECURSIVE SeqsUpTo(_, _)
SeqsUpTo(S, n) ==
    IF n = 0 THEN {<<>>}
    ELSE LET shorter == SeqsUpTo(S, n - 1)
         IN shorter \cup {Append(s, x) : s \in {t \in shorter : Len(t) = n - 1}, x \in S}

-----------------------------------------------------------------------------
(* Position algebra: src/src/location.rs *)

Location(r, c, ch) == [row |-> r, column |-> c, character |-> ch]

ZeroLocation == Location(0, 0, 0)

Span(s, e) == [start |-> s, end |-> e]

ZeroSpan == Span(ZeroLocation, ZeroLocation)

\* Mutant: the column is not reset on a newline.
location_after_noreset(self, next) ==
    LET rc == IF next = "\n" THEN <<self.row + 1, self.column>>
              ELSE <<self.row, self.column + 1>>
    IN Location(rc[1], rc[2], self.character + 1)

location_after(self, next) ==
    LET rc == IF next = "\n" THEN <<self.row + 1, 0>>
              ELSE <<self.row, self.column + 1>>
    IN Location(rc[1], rc[2], self.character + 1)

span_to(self, end) == Span(self, end)

\* Mutant: start and end are exchanged.
Span_location_after_swapped(self, next) ==
    Span(location_after(self.end, next), self.end)

Span_location_after(self, next) == Span(self.end, location_after(self.end, next))

Span_span_to(self, end) == Span(self.start, end)

\* Mutant: the end of the span is not advanced.
extended_span_stuck(self, next) == Span(self.start, self.end)

extended_span(self, next) == Span(self.start, location_after(self.end, next))

-----------------------------------------------------------------------------
(* Token taxonomy: src/src/tokens.rs *)

Tok(k) == [kind |-> k, text |-> <<>>]

Whitespace(c) == [kind |-> "Whitespace", text |-> <<c>>]

Word(s) == [kind |-> "Word", text |-> s]

\* char::is_whitespace: the Unicode White_Space characters.
is_whitespace(c) ==
    c \in {" ", "\t", "\n", "\r", "\f", "U+000B", "U+0085", "U+00A0", "U+2003"}

parse_char(c) ==
    CASE c = "\n" -> <<Tok("Newline")>>
      [] c # "\n" /\ is_whitespace(c) -> <<Whitespace(c)>>
      [] c = "U+2022" -> <<Tok("Bullet")>>
      [] c = "U+2023" -> <<Tok("TriangularBullet")>>
      [] c = "U+2043" -> <<Tok("HyphenBullet")>>
      [] c = "!" -> <<Tok("Exclamation")>>
      [] c = "\"" -> <<Tok("DoubleQuote")>>
      [] c = "'" -> <<Tok("SingleQuote")>>
      [] c = "#" -> <<Tok("Hash")>>
      [] c = "$" -> <<Tok("Dollar")>>
      [] c = "%" -> <<Tok("Percent")>>
      [] c = "&" -> <<Tok("Ampersand")>>
      [] c = "*" -> <<Tok("Asterisk")>>
      [] c = "+" -> <<Tok("Plus")>>
      [] c = "," -> <<Tok("Comma")>>
      [] c = "-" -> <<Tok("Hyphen")>>
      [] c = "." -> <<Tok("Period")>>
      [] c = "/" -> <<Tok("ForwardSlash")>>
      [] c = ":" -> <<Tok("Colon")>>
      [] c = ";" -> <<Tok("SemiColon")>>
      [] c = "<" -> <<Tok("LessThan")>>
      [] c = "=" -> <<Tok("Equal")>>
      [] c = ">" -> <<Tok("GreaterThan")>>
      [] c = "?" -> <<Tok("Question")>>
      [] c = "@" -> <<Tok("At")>>
      [] c = "\\" -> <<Tok("BackSlash")>>
      [] c = "^" -> <<Tok("Caret")>>
      [] c = "_" -> <<Tok("Underscore")>>
      [] c = "U+0060" -> <<Tok("Backtick")>>
      [] c = "|" -> <<Tok("Pipe")>>
      [] c = "~" -> <<Tok("Tilde")>>
      [] c = "(" -> <<Tok("OpenParen")>>
      [] c = ")" -> <<Tok("CloseParen")>>
      [] c = "[" -> <<Tok("OpenBracket")>>
      [] c = "]" -> <<Tok("CloseBracket")>>
      [] c = "{" -> <<Tok("OpenBrace")>>
      [] c = "}" -> <<Tok("CloseBrace")>>
      [] OTHER -> <<>>

\* ADORNMENT_CHARS of src/src/ast.rs: the characters a section adornment or
\* a transition is made of.
ADORNMENT_CHARS ==
    {"!", "\"", "#", "$", "%", "&", "'", "(", ")", "*", "+", ",", "-", ".", "/",
     ":", ";", "<", "=", ">", "?", "@", "[", "\\", "]", "^", "_", "U+0060",
     "{", "|", "}", "~"}

\* Token::is_adornment, arm by arm; an arm for a kind already listed above
\* it can never be taken (Ampersand, OpenBracket and CloseBracket are
\* listed twice).
is_adornment(self) ==
    CASE self.kind = "Exclamation" -> TRUE
      [] self.kind = "DoubleQuote" -> TRUE
      [] self.kind = "Hash" -> TRUE
      [] self.kind = "Dollar" -> TRUE
      [] self.kind = "Percent" -> TRUE
      [] self.kind = "Ampersand" -> TRUE
      [] self.kind = "SingleQuote" -> TRUE
      [] self.kind = "OpenParen" -> TRUE
      [] self.kind = "CloseParen" -> TRUE
      [] self.kind = "Asterisk" -> TRUE
      [] self.kind = "Plus" -> TRUE
      [] self.kind = "Comma" -> TRUE
      [] self.kind = "Hyphen" -> TRUE
      [] self.kind = "Period" -> TRUE
      [] self.kind = "ForwardSlash" -> TRUE
      [] self.kind = "Colon" -> TRUE
      [] self.kind = "SemiColon" -> TRUE
      [] self.kind = "LessThan" -> TRUE
      [] self.kind = "Equal" -> TRUE
      [] self.kind = "GreaterThan" -> TRUE
      [] self.kind = "Question" -> TRUE
      [] self.kind = "OpenBracket" -> TRUE
      [] self.kind = "BackSlash" -> TRUE
      [] self.kind = "CloseBracket" -> TRUE
      [] self.kind = "Caret" -> TRUE
      [] self.kind = "Underscore" -> TRUE
      [] self.kind = "Backtick" -> TRUE
      [] self.kind = "Pipe" -> TRUE
      [] self.kind = "Tilde" -> TRUE
      [] OTHER -> FALSE

-----------------------------------------------------------------------------
(* Numerals: src/src/tokens.rs *)

UpperLetters ==
    <<"A", "B", "C", "D", "E", "F", "G", "H", "I", "J", "K", "L", "M",
      "N", "O", "P", "Q", "R", "S", "T", "U", "V", "W", "X", "Y", "Z">>

LowerLetters ==
    <<"a", "b", "c", "d", "e", "f", "g", "h", "i", "j", "k", "l", "m",
      "n", "o", "p", "q", "r", "s", "t", "u", "v", "w", "x", "y", "z">>

Digits == <<"0", "1", "2", "3", "4", "5", "6", "7", "8", "9">>

\* The place of c in s (c occurs in s).
IndexOf(s, c) == CHOOSE i \in 1..Len(s) : s[i] = c

Occurs(s, c) == \E i \in 1..Len(s) : s[i] = c

is_ascii_lowercase(c) == Occurs(LowerLetters, c)

is_ascii_uppercase(c) == Occurs(UpperLetters, c)

is_ascii_alphabetic(c) == is_ascii_lowercase(c) \/ is_ascii_uppercase(c)

to_ascii_uppercase(c) ==
    IF is_ascii_lowercase(c) THEN UpperLetters[IndexOf(LowerLetters, c)] ELSE c

\* str::to_uppercase, on the words it is called with here (ASCII lowercase).
to_uppercase(word) == [i \in 1..Len(word) |-> to_ascii_uppercase(word[i])]

\* The characters of the model that take more than one byte in UTF-8.
NonAscii == {"U+0085", "U+00A0", "U+2003", "U+2022", "U+2023", "U+2043"}

\* str::len: the length in bytes.
str_len(word) ==
    Len(word) + Cardinality({i \in 1..Len(word) : word[i] \in NonAscii})

RECURSIVE digits_value(_, _)
digits_value(word, acc) ==
    IF word = <<>> THEN acc
    ELSE digits_value(Tail(word), 10 * acc + (IndexOf(Digits, Head(word)) - 1))

\* str::parse::<u64>().ok(): an optional '+', then at least one digit and
\* nothing but digits.  (A value above u64::MAX is an error; the words
\* decoded here are far too short for one.)
parse_u64(word) ==
    LET body == IF word # <<>> /\ Head(word) = "+" THEN Tail(word) ELSE word
    IN IF body # <<>> /\ \A i \in 1..Len(body) : Occurs(Digits, body[i])
       THEN <<digits_value(body, 0)>>
       ELSE <<>>

\* Mutant: zero is a numeral.
from_arabic_numeral_zero(self) ==
    IF self.kind = "Word" THEN parse_u64(self.text) ELSE <<>>

from_arabic_numeral(self) ==
    IF self.kind = "Word"
    THEN LET parsed == parse_u64(self.text)
         IN IF parsed = <<>> THEN <<>>
            ELSE IF parsed[1] = 0 THEN <<>> ELSE parsed
    ELSE <<>>

from_latin_numeral(self) ==
    IF self.kind = "Word"
    THEN IF str_len(self.text) # 1 THEN <<>>
         ELSE LET letter == self.text[1]
              IN IF is_ascii_alphabetic(letter)
                 THEN <<IndexOf(UpperLetters, to_ascii_uppercase(letter))>>
                 ELSE <<>>
    ELSE <<>>

Row(n, s, v) == [numeral |-> n, skip |-> s, value |-> v]

\* Mutant: the table without its subtractive pairs.
ROMAN_NUMERALS_additive ==
    <<Row(<<"M", "M", "M", "M">>, 2, 4000),
      Row(<<"M">>, 0, 1000),
      Row(<<"D">>, 1, 500),
      Row(<<"C">>, 0, 100),
      Row(<<"L">>, 1, 50),
      Row(<<"X">>, 0, 10),
      Row(<<"V">>, 1, 5),
      Row(<<"I">>, 0, 1)>>

ROMAN_NUMERALS ==
    <<Row(<<"M", "M", "M", "M">>, 2, 4000),
      Row(<<"M">>, 0, 1000),
      Row(<<"C", "M">>, 4, 900),
      Row(<<"D">>, 1, 500),
      Row(<<"C", "D">>, 2, 400),
      Row(<<"C">>, 0, 100),
      Row(<<"X", "C">>, 4, 90),
      Row(<<"L">>, 1, 50),
      Row(<<"X", "L">>, 2, 40),
      Row(<<"X">>, 0, 10),
      Row(<<"I", "X">>, 4, 9),
      Row(<<"V">>, 1, 5),
      Row(<<"I", "V">>, 2, 4),
      Row(<<"I">>, 0, 1)>>

starts_with(word, n) == Len(n) <= Len(word) /\ SubSeq(word, 1, Len(n)) = n

\* Mutant: a symbol may be repeated without limit.
track_last_unlimited(last, row) ==
    IF last # <<>> /\ last[1] = row.numeral
    THEN IF row.skip = 0 THEN <<Append(last, row.numeral)>> ELSE <<>>
    ELSE <<<<row.numeral>>>>

\* The bookkeeping of `last` in the loop of from_roman_numeral: Some(the new
\* last), or None where the loop returns None.
track_last(last, row) ==
    IF last # <<>> /\ last[1] = row.numeral
    THEN IF row.skip = 0
         THEN IF Len(last) + 1 > 3 THEN <<>> ELSE <<Append(last, row.numeral)>>
         ELSE <<>>
    ELSE <<<<row.numeral>>>>

\* The while loop of from_roman_numeral.  roman_numerals is the table from
\* its row base + 1 on (base rows were sliced off).
RECURSIVE roman_loop(_, _, _, _)
roman_loop(base, word, total, last) ==
    IF Len(word) > 0
    THEN LET found == {i \in (base + 1)..Len(ROMAN_NUMERALS) :
                          starts_with(word, ROMAN_NUMERALS[i].numeral)}
         IN IF found = {} THEN <<>>
            ELSE LET at == CHOOSE i \in found : \A j \in found : i <= j
                     index == at - base - 1
                     row == ROMAN_NUMERALS[at]
                     tracked == track_last(last, row)
                 IN IF tracked = <<>> THEN <<>>
                    ELSE roman_loop(IF row.skip = 0 THEN base + index
                                    ELSE base + index + row.skip,
                                    SubSeq(word, Len(row.numeral) + 1, Len(word)),
                                    total + row.value,
                                    tracked[1])
    ELSE IF total # 0 THEN <<total>> ELSE <<>>

from_roman_numeral(self) ==
    IF self.kind = "Word"
    THEN LET word == IF \A i \in 1..Len(self.text) : is_ascii_lowercase(self.text[i])
                     THEN to_uppercase(self.text)
                     ELSE self.text
         IN roman_loop(0, word, 0, <<>>)
    ELSE <<>>

or_else(first, second) == IF first # <<>> THEN first ELSE second

\* Mutant: Roman decoding is tried before Latin.
from_numeral_roman_first(self) ==
    or_else(or_else(from_arabic_numeral(self), from_roman_numeral(self)),
            from_latin_numeral(self))

from_numeral(self) ==
    or_else(or_else(from_arabic_numeral(self), from_latin_numeral(self)),
            from_roman_numeral(self))

-----------------------------------------------------------------------------
(* The buffered character iterator: Chars in src/src/tokens.rs (ReaderChars *)
(* in src/src/location.rs is the same code).                               *)

\* BufReader<R>: pos characters of text are consumed, reads read_line calls
\* were made.
NewSource == [pos |-> 0, reads |-> 0]

\* What R does on the read_line that follows `reads` earlier ones.
Outcome(reads) == IF reads + 1 <= Len(script) THEN script[reads + 1] ELSE "ok"

\* The end of the line that starts after pos: its newline, or the end of text.
LineEnd(pos) ==
    LET nl == {i \in (pos + 1)..Len(text) : text[i] = "\n"}
    IN IF nl = {} THEN Len(text) ELSE CHOOSE i \in nl : \A j \in nl : i <= j

\* BufRead::read_line: Ok(line) up to and including the newline, Ok("") at
\* the end of file, or Err; the characters taken from R before an error are
\* not handed out again.  "short": R reports its end after one character of
\* the line, and read_line hands out the line so far.
read_line(source) ==
    LET o == Outcome(source.reads)
        n == source.reads + 1
    IN CASE o = "ok" ->
              [ok |-> TRUE, line |-> SubSeq(text, source.pos + 1, LineEnd(source.pos)),
               source |-> [pos |-> LineEnd(source.pos), reads |-> n]]
         [] o = "eof" ->
              [ok |-> TRUE, line |-> <<>>, source |-> [pos |-> source.pos, reads |-> n]]
         [] o = "err" ->
              [ok |-> FALSE, line |-> <<>>, source |-> [pos |-> source.pos, reads |-> n]]
         [] o = "errPartial" ->
              [ok |-> FALSE, line |-> <<>>,
               source |-> [pos |-> IF source.pos < Len(text) THEN source.pos + 1
                                   ELSE source.pos,
                           reads |-> n]]
         [] o = "short" ->
              LET end == IF source.pos < LineEnd(source.pos) THEN source.pos + 1
                         ELSE source.pos
              IN [ok |-> TRUE, line |-> SubSeq(text, source.pos + 1, end),
                  source |-> [pos |-> end, reads |-> n]]

Chars_from_reader == [next |-> 0, buffer |-> <<>>, source |-> NewSource]

next_char(self) ==
    IF self.next < Len(self.buffer)
    THEN [c |-> <<self.buffer[self.next + 1]>>, self |-> [self EXCEPT !.next = @ + 1]]
    ELSE [c |-> <<>>, self |-> self]

\* Mutant: the refill keeps the old place in the buffer.
refill_buffer_noreset(self) ==
    LET r == read_line(self.source)
    IN IF r.ok
       THEN [ok |-> TRUE,
             self |-> [next |-> self.next, buffer |-> r.line, source |-> r.source]]
       ELSE [ok |-> FALSE, self |-> [self EXCEPT !.source = r.source]]

refill_buffer(self) ==
    LET r == read_line(self.source)
    IN IF r.ok
       THEN [ok |-> TRUE,
             self |-> [next |-> 0, buffer |-> r.line, source |-> r.source]]
       ELSE [ok |-> FALSE, self |-> [self EXCEPT !.source = r.source]]

\* Item kinds: "char" (Some(Ok(c))), "err" (Some(Err)), "none" (None).
Chars_next(self) ==
    LET first == next_char(self)
    IN IF first.c # <<>>
       THEN [kind |-> "char", c |-> first.c, self |-> first.self]
       ELSE LET filled == refill_buffer(self)
            IN IF ~filled.ok
               THEN [kind |-> "err", c |-> <<>>, self |-> filled.self]
               ELSE LET second == next_char(filled.self)
                    IN [kind |-> IF second.c = <<>> THEN "none" ELSE "char",
                        c |-> second.c, self |-> second.self]

-----------------------------------------------------------------------------
(* The token stream: TokenStream in src/src/tokens.rs *)

\* Mutant: the character is put in front of the word.
push_front(s, c) == <<c>> \o s

push(s, c) == Append(s, c)

\* Mutant: a buffered Word is emitted at every character, never grown.
step_nocoalesce(buffer, c) ==
    LET token == parse_char(c)
    IN CASE buffer # <<>> /\ token = <<>> ->
              [buffer |-> <<Word(push(<<>>, c))>>, emit |-> buffer]
         [] buffer # <<>> /\ token # <<>> ->
              [buffer |-> token, emit |-> buffer]
         [] buffer = <<>> /\ token # <<>> ->
              [buffer |-> <<>>, emit |-> token]
         [] buffer = <<>> /\ token = <<>> ->
              [buffer |-> <<Word(push(<<>>, c))>>, emit |-> <<>>]

\* Mutant: a token that arrives at an empty buffer is held back.
step_hold(buffer, c) ==
    LET token == parse_char(c)
    IN CASE buffer # <<>> /\ buffer[1].kind = "Word" /\ token = <<>> ->
              [buffer |-> <<Word(push(buffer[1].text, c))>>, emit |-> <<>>]
         [] buffer # <<>> /\ buffer[1].kind # "Word" /\ token = <<>> ->
              [buffer |-> <<Word(push(<<>>, c))>>, emit |-> buffer]
         [] buffer # <<>> /\ token # <<>> ->
              [buffer |-> token, emit |-> buffer]
         [] buffer = <<>> /\ token # <<>> ->
              [buffer |-> token, emit |-> <<>>]
         [] buffer = <<>> /\ token = <<>> ->
              [buffer |-> <<Word(push(<<>>, c))>>, emit |-> <<>>]

\* Mutant: a word character replaces the buffered Word.
step_overwrite(buffer, c) ==
    LET token == parse_char(c)
    IN CASE buffer # <<>> /\ buffer[1].kind = "Word" /\ token = <<>> ->
              [buffer |-> <<Word(push(<<>>, c))>>, emit |-> <<>>]
         [] buffer # <<>> /\ buffer[1].kind # "Word" /\ token = <<>> ->
              [buffer |-> <<Word(push(<<>>, c))>>, emit |-> buffer]
         [] buffer # <<>> /\ token # <<>> ->
              [buffer |-> token, emit |-> buffer]
         [] buffer = <<>> /\ token # <<>> ->
              [buffer |-> <<>>, emit |-> token]
         [] buffer = <<>> /\ token = <<>> ->
              [buffer |-> <<Word(push(<<>>, c))>>, emit |-> <<>>]

\* The match on (buffer, Token::parse_char(c)): the new buffer and the token
\* the loop breaks with, if any.
step(buffer, c) ==
    LET token == parse_char(c)
    IN CASE buffer # <<>> /\ buffer[1].kind = "Word" /\ token = <<>> ->
              [buffer |-> <<Word(push(buffer[1].text, c))>>, emit |-> <<>>]
         [] buffer # <<>> /\ buffer[1].kind # "Word" /\ token = <<>> ->
              [buffer |-> <<Word(push(<<>>, c))>>, emit |-> buffer]
         [] buffer # <<>> /\ token # <<>> ->
              [buffer |-> token, emit |-> buffer]
         [] buffer = <<>> /\ token # <<>> ->
              [buffer |-> <<>>, emit |-> token]
         [] buffer = <<>> /\ token = <<>> ->
              [buffer |-> <<Word(push(<<>>, c))>>, emit |-> <<>>]

\* The span side of the same match, as the specification's transition rules
\* give it: a word grows by extended_span, every other token sits at the
\* single-character span of c, and the emitted token carries its own span.
step_span(buffer, bspan, cspan, c) ==
    LET token == parse_char(c)
    IN CASE buffer # <<>> /\ buffer[1].kind = "Word" /\ token = <<>> ->
              [bspan |-> extended_span(bspan, c), espan |-> ZeroSpan]
         [] buffer # <<>> /\ ~(buffer[1].kind = "Word" /\ token = <<>>) ->
              [bspan |-> cspan, espan |-> bspan]
         [] buffer = <<>> /\ token # <<>> ->
              [bspan |-> ZeroSpan, espan |-> cspan]
         [] buffer = <<>> /\ token = <<>> ->
              [bspan |-> cspan, espan |-> ZeroSpan]

\* The single-character span of c, which follows the span of the character
\* before it (the stream is seeded with the zero location of the source).
char_span(last, c) == Span_location_after(last, c)

TokItem(t, s) == [kind |-> "tok", tok |-> <<t>>, span |-> s]
ErrItem == [kind |-> "err", tok |-> <<>>, span |-> ZeroSpan]
\* Mutant: the end of the source is reported as an error.
NoneItem_err == [kind |-> "err", tok |-> <<>>, span |-> ZeroSpan]

NoneItem == [kind |-> "none", tok |-> <<>>, span |-> ZeroSpan]

TokenStream_from_reader ==
    [buffer |-> <<>>, chars |-> Chars_from_reader,
     bspan |-> ZeroSpan, last |-> ZeroSpan, taken |-> <<>>]

\* Mutant: at the end of the source the buffered token is dropped.
RECURSIVE TokenStream_next_noflush(_)
TokenStream_next_noflush(self) ==
    LET buffer == self.buffer
        n == Chars_next(self.chars)
    IN CASE n.kind = "err" ->
              [item |-> ErrItem, self |-> [self EXCEPT !.chars = n.self]]
         [] n.kind = "none" ->
              [item |-> NoneItem,
               self |-> [self EXCEPT !.buffer = <<>>, !.chars = n.self]]
         [] n.kind = "char" ->
              LET c == n.c[1]
                  st == step(buffer, c)
                  cspan == char_span(self.last, c)
                  sp == step_span(buffer, self.bspan, cspan, c)
                  after == [buffer |-> st.buffer, chars |-> n.self,
                            bspan |-> sp.bspan, last |-> cspan,
                            taken |-> Append(self.taken, c)]
              IN IF st.emit # <<>>
                 THEN [item |-> TokItem(st.emit[1], sp.espan), self |-> after]
                 ELSE TokenStream_next_noflush(after)

\* Mutant: the buffer taken at the start of the loop is not put back on an error.
RECURSIVE TokenStream_next_drop(_)
TokenStream_next_drop(self) ==
    LET buffer == self.buffer
        n == Chars_next(self.chars)
    IN CASE n.kind = "err" ->
              [item |-> ErrItem, self |-> [self EXCEPT !.buffer = <<>>, !.chars = n.self]]
         [] n.kind = "none" ->
              [item |-> IF buffer = <<>> THEN NoneItem
                        ELSE TokItem(buffer[1], self.bspan),
               self |-> [self EXCEPT !.buffer = <<>>, !.chars = n.self]]
         [] n.kind = "char" ->
              LET c == n.c[1]
                  st == step(buffer, c)
                  cspan == char_span(self.last, c)
                  sp == step_span(buffer, self.bspan, cspan, c)
                  after == [buffer |-> st.buffer, chars |-> n.self,
                            bspan |-> sp.bspan, last |-> cspan,
                            taken |-> Append(self.taken, c)]
              IN IF st.emit # <<>>
                 THEN [item |-> TokItem(st.emit[1], sp.espan), self |-> after]
                 ELSE TokenStream_next_drop(after)

\* One call of next(): the loop runs until a token is broken out, the source
\* ends or a read fails.  taken is the history of the characters received.
RECURSIVE TokenStream_next(_)
TokenStream_next(self) ==
    LET buffer == self.buffer
        n == Chars_next(self.chars)
    IN CASE n.kind = "err" ->
              [item |-> ErrItem, self |-> [self EXCEPT !.chars = n.self]]
         [] n.kind = "none" ->
              [item |-> IF buffer = <<>> THEN NoneItem
                        ELSE TokItem(buffer[1], self.bspan),
               self |-> [self EXCEPT !.buffer = <<>>, !.chars = n.self]]
         [] n.kind = "char" ->
              LET c == n.c[1]
                  st == step(buffer, c)
                  cspan == char_span(self.last, c)
                  sp == step_span(buffer, self.bspan, cspan, c)
                  after == [buffer |-> st.buffer, chars |-> n.self,
                            bspan |-> sp.bspan, last |-> cspan,
                            taken |-> Append(self.taken, c)]
              IN IF st.emit # <<>>
                 THEN [item |-> TokItem(st.emit[1], sp.espan), self |-> after]
                 ELSE TokenStream_next(after)

-----------------------------------------------------------------------------
(* The character sources: src/src/location.rs *)

ReaderChars_from_reader(reader) == [next |-> 0, buffer |-> <<>>, source |-> reader]

\* Mutant: the reader is looked at, not taken.
ReaderSource_chars_keep(reader) ==
    IF reader = <<>>
    THEN [chars |-> <<>>, reader |-> <<>>]
    ELSE [chars |-> <<ReaderChars_from_reader(reader[1])>>, reader |-> reader]

\* self.reader.take().map(ReaderChars::from_reader)
ReaderSource_chars(reader) ==
    IF reader = <<>>
    THEN [chars |-> <<>>, reader |-> <<>>]
    ELSE [chars |-> <<ReaderChars_from_reader(reader[1])>>, reader |-> <<>>]

\* Some(TextChars(self.buffer.chars()))
TextSource_chars(buffer) == [chars |-> <<buffer>>, buffer |-> buffer]

\* self.0.next().map(Ok)
TextChars_next(self) ==
    IF self = <<>> THEN [item |-> <<>>, self |-> self]
    ELSE [item |-> <<Head(self)>>, self |-> Tail(self)]

\* TokenStream::try_new(source): an error when source.chars() is None.
try_new(chars) == IF chars = <<>> THEN "Err" ELSE "Ok"

SomeOrNone(option) == IF option = <<>> THEN "None" ELSE "Some"

-----------------------------------------------------------------------------
(* Initial states *)

StreamIdle ==
    /\ text = <<>> /\ script = <<>>
    /\ ts = TokenStream_from_reader /\ out = <<>>

SourceIdle ==
    /\ treader = <<"R">> /\ rcalls = <<>> /\ opens = <<>>
    /\ tbuffer = <<>> /\ tcalls = <<>> /\ titer = <<>> /\ tyield = <<>>

AlgebraIdle ==
    /\ loc = ZeroLocation /\ path = <<>> /\ mark = ZeroLocation
    /\ span = ZeroSpan /\ spanOk = TRUE

CharsIdle ==
    /\ rchars = Chars_from_reader /\ chist = <<>>
    /\ tchars = <<>> /\ thist = <<>>

TokenIdle ==
    /\ tok = Tok("Newline") /\ numberOf = 0 /\ cls = <<>> /\ num = <<>>

-----------------------------------------------------------------------------
(* The token stream over a reader *)

Init ==
    /\ text \in SeqsUpTo(Alphabet, MaxLen)
    /\ script \in SeqsUpTo(Outcomes, MaxScript)
    /\ ts = TokenStream_from_reader
    /\ out = <<>>
    /\ SourceIdle
    /\ AlgebraIdle
    /\ CharsIdle
    /\ TokenIdle

Pull ==
    /\ Len(out) < MaxPulls
    /\ LET r == TokenStream_next(ts)
       IN /\ ts' = r.self
          /\ out' = Append(out, r.item)
    /\ UNCHANGED <<text, script>>
    /\ UNCHANGED sourceVars
    /\ UNCHANGED algebraVars
    /\ UNCHANGED charsVars
    /\ UNCHANGED tokenVars

Next == Pull

Spec == Init /\ [][Next]_vars

\* Weak fairness of Pull, with ENABLED <<Pull>>_vars written out: a pull
\* appends to out, so it is enabled exactly while fewer than MaxPulls pulls
\* were made.
PullIsWeaklyFair == <>[](Len(out) < MaxPulls) => []<><<Pull>>_vars

\* The same stream under a caller that keeps pulling (a for loop over it).
SpecLive == Init /\ [][Next]_vars /\ PullIsWeaklyFair

-----------------------------------------------------------------------------
(* The sources and their chars() *)

InitSource ==
    /\ StreamIdle
    /\ treader = <<"R">> /\ rcalls = <<>> /\ opens = <<>>
    /\ tbuffer \in SeqsUpTo(Alphabet, MaxLen)
    /\ tcalls = <<>> /\ titer = <<>> /\ tyield = <<>>
    /\ AlgebraIdle
    /\ CharsIdle
    /\ TokenIdle

CallReaderChars ==
    /\ Len(rcalls) < MaxCalls
    /\ LET r == ReaderSource_chars(treader)
       IN /\ treader' = r.reader
          /\ rcalls' = Append(rcalls, SomeOrNone(r.chars))
          /\ opens' = opens
    /\ UNCHANGED <<tbuffer, tcalls, titer, tyield>>
    /\ UNCHANGED streamVars
    /\ UNCHANGED algebraVars
    /\ UNCHANGED charsVars
    /\ UNCHANGED tokenVars

TryNewReader ==
    /\ Len(rcalls) < MaxCalls
    /\ LET r == ReaderSource_chars(treader)
       IN /\ treader' = r.reader
          /\ rcalls' = Append(rcalls, SomeOrNone(r.chars))
          /\ opens' = Append(opens, try_new(r.chars))
    /\ UNCHANGED <<tbuffer, tcalls, titer, tyield>>
    /\ UNCHANGED streamVars
    /\ UNCHANGED algebraVars
    /\ UNCHANGED charsVars
    /\ UNCHANGED tokenVars

\* The caller keeps the iterator it got last and drops the one before.
CallTextChars ==
    /\ Len(tcalls) < MaxCalls
    /\ LET r == TextSource_chars(tbuffer)
       IN /\ tbuffer' = r.buffer
          /\ tcalls' = Append(tcalls, SomeOrNone(r.chars))
          /\ titer' = IF r.chars = <<>> THEN titer ELSE r.chars
          /\ tyield' = IF r.chars = <<>> THEN tyield ELSE <<>>
    /\ UNCHANGED <<treader, rcalls, opens>>
    /\ UNCHANGED streamVars
    /\ UNCHANGED algebraVars
    /\ UNCHANGED charsVars
    /\ UNCHANGED tokenVars

NextTextChar ==
    /\ titer # <<>>
    /\ LET r == TextChars_next(titer[1])
       IN /\ titer' = <<r.self>>
          /\ tyield' = tyield \o r.item
    /\ UNCHANGED <<treader, rcalls, opens, tbuffer, tcalls>>
    /\ UNCHANGED streamVars
    /\ UNCHANGED algebraVars
    /\ UNCHANGED charsVars
    /\ UNCHANGED tokenVars

NextSource == CallReaderChars \/ TryNewReader \/ CallTextChars \/ NextTextChar

SpecSource == InitSource /\ [][NextSource]_vars

-----------------------------------------------------------------------------
(* The predicates and numeral decoders, applied to a token by a caller *)

RomanLetters == {"I", "V", "X", "L", "C", "D", "M"}

\* Letters of the words that mix the two cases.
MixedLetters == {"M", "m", "c", "i"}

\* Characters of the words tried as Arabic numerals.
ArabicChars == {"0", "1", "9", "+"}

\* The standard way of writing numbers in Roman numerals: repeatedly the
\* largest of these that still fits.
StandardSymbols ==
    <<[s |-> <<"M">>, v |-> 1000], [s |-> <<"C", "M">>, v |-> 900],
      [s |-> <<"D">>, v |-> 500], [s |-> <<"C", "D">>, v |-> 400],
      [s |-> <<"C">>, v |-> 100], [s |-> <<"X", "C">>, v |-> 90],
      [s |-> <<"L">>, v |-> 50], [s |-> <<"X", "L">>, v |-> 40],
      [s |-> <<"X">>, v |-> 10], [s |-> <<"I", "X">>, v |-> 9],
      [s |-> <<"V">>, v |-> 5], [s |-> <<"I", "V">>, v |-> 4],
      [s |-> <<"I">>, v |-> 1]>>

RECURSIVE StandardRoman(_)
StandardRoman(n) ==
    IF n = 0 THEN <<>>
    ELSE LET fits == {i \in 1..Len(StandardSymbols) : StandardSymbols[i].v <= n}
             i == CHOOSE k \in fits : \A j \in fits : k <= j
         IN StandardSymbols[i].s \o StandardRoman(n - StandardSymbols[i].v)

Lowercase(word) ==
    [i \in 1..Len(word) |->
        IF is_ascii_uppercase(word[i]) THEN LowerLetters[IndexOf(UpperLetters, word[i])]
        ELSE word[i]]

Range(s) == {s[i] : i \in 1..Len(s)}

\* The tokens parse_char makes of one character.
CharTokens ==
    {parse_char(c)[1] : c \in ADORNMENT_CHARS
                             \cup {" ", "\t", "\n", "\r", "\f", "U+000B", "U+0085", "U+00A0", "U+2003"}
                             \cup {"U+2022", "U+2023", "U+2043"}}

TokenWords ==
    SeqsUpTo(RomanLetters, MaxWord)
        \cup SeqsUpTo(MixedLetters, MaxMixed)
        \cup SeqsUpTo(ArabicChars, MaxDigits)
        \cup {<<c>> : c \in Range(UpperLetters) \cup Range(LowerLetters) \cup NonAscii}

InitToken ==
    /\ StreamIdle /\ SourceIdle /\ AlgebraIdle /\ CharsIdle
    /\ cls = <<>> /\ num = <<>>
    /\ \/ /\ numberOf = 0
          /\ tok \in CharTokens \cup {Word(w) : w \in TokenWords}
       \/ /\ numberOf \in 1..MaxNumeral
          /\ tok \in {Word(StandardRoman(numberOf)), Word(Lowercase(StandardRoman(numberOf)))}

Classify ==
    /\ cls = <<>>
    /\ cls' = <<[adornment |-> is_adornment(tok)]>>
    /\ UNCHANGED <<tok, numberOf, num>>
    /\ UNCHANGED streamVars
    /\ UNCHANGED sourceVars
    /\ UNCHANGED algebraVars
    /\ UNCHANGED charsVars

Decode ==
    /\ num = <<>>
    /\ num' = <<[arabic |-> from_arabic_numeral(tok),
                 latin |-> from_latin_numeral(tok),
                 roman |-> from_roman_numeral(tok),
                 numeral |-> from_numeral(tok)]>>
    /\ UNCHANGED <<tok, numberOf, cls>>
    /\ UNCHANGED streamVars
    /\ UNCHANGED sourceVars
    /\ UNCHANGED algebraVars
    /\ UNCHANGED charsVars

NextToken == Classify \/ Decode

SpecToken == InitToken /\ [][NextToken]_vars

-----------------------------------------------------------------------------
(* The two character iterators over the same text, pulled by a caller *)

\* Characters of the texts the iterators run over: a word character, a
\* punctuation character and the newline that ends a line.
CharsAlphabet == {"a", "-", "\n"}

\* Outcomes of one read_line on R, with the line R cuts short.
CharsOutcomes == Outcomes \cup {"short"}

InitChars ==
    /\ text \in SeqsUpTo(CharsAlphabet, MaxLen)
    /\ script \in SeqsUpTo(CharsOutcomes, MaxScript)
    /\ ts = TokenStream_from_reader /\ out = <<>>
    /\ SourceIdle /\ AlgebraIdle /\ TokenIdle
    /\ rchars = ReaderChars_from_reader(NewSource) /\ chist = <<>>
    /\ tchars = text /\ thist = <<>>

\* ReaderChars::next.  The history keeps, with the item: whether a buffered
\* character was waiting, how many read_line calls were made, and what a
\* read_line at this point gives.
ReaderCharsNext ==
    /\ Len(chist) < MaxCharPulls
    /\ LET r == Chars_next(rchars)
           line == read_line(rchars.source)
       IN /\ rchars' = r.self
          /\ chist' = Append(chist,
                 [kind |-> r.kind, c |-> r.c,
                  waiting |-> rchars.next < Len(rchars.buffer),
                  reads |-> r.self.source.reads - rchars.source.reads,
                  lineOk |-> line.ok, lineLen |-> Len(line.line),
                  yielded |-> Len(SelectSeq(chist, LAMBDA h : h.kind = "char"))])
    /\ UNCHANGED <<tchars, thist>>
    /\ UNCHANGED streamVars
    /\ UNCHANGED sourceVars
    /\ UNCHANGED algebraVars
    /\ UNCHANGED tokenVars

\* TextChars::next.
TextCharsNext ==
    /\ Len(thist) < MaxCharPulls
    /\ LET r == TextChars_next(tchars)
       IN /\ tchars' = r.self
          /\ thist' = Append(thist, r.item)
    /\ UNCHANGED <<rchars, chist>>
    /\ UNCHANGED streamVars
    /\ UNCHANGED sourceVars
    /\ UNCHANGED algebraVars
    /\ UNCHANGED tokenVars

NextChars == ReaderCharsNext \/ TextCharsNext

SpecChars == InitChars /\ [][NextChars]_vars

-----------------------------------------------------------------------------
(* The position algebra, driven by a caller *)

\* Location and Span derive no ordering; this is the one the derive would
\* give: by row, then column, then character offset.
LocLE(a, b) ==
    \/ a.row < b.row
    \/ a.row = b.row /\ a.column < b.column
    \/ a.row = b.row /\ a.column = b.column /\ a.character <= b.character

InitAlgebra == StreamIdle /\ SourceIdle /\ AlgebraIdle /\ CharsIdle /\ TokenIdle

LocationAfter ==
    /\ Len(path) < MaxOffset
    /\ \E c \in AlgAlphabet :
          /\ loc' = location_after(loc, c)
          /\ path' = Append(path, c)
    /\ UNCHANGED <<mark, span, spanOk>>
    /\ UNCHANGED streamVars
    /\ UNCHANGED sourceVars
    /\ UNCHANGED charsVars
    /\ UNCHANGED tokenVars

\* Location is Copy: keep the current one for later.
SaveMark ==
    /\ mark' = loc
    /\ UNCHANGED <<loc, path, span, spanOk>>
    /\ UNCHANGED streamVars
    /\ UNCHANGED sourceVars
    /\ UNCHANGED charsVars
    /\ UNCHANGED tokenVars

LocationSpanTo ==
    /\ \E p \in {<<mark, loc>>, <<loc, mark>>} :
          /\ span' = span_to(p[1], p[2])
          /\ spanOk' = LocLE(p[1], p[2])
    /\ UNCHANGED <<loc, path, mark>>
    /\ UNCHANGED streamVars
    /\ UNCHANGED sourceVars
    /\ UNCHANGED charsVars
    /\ UNCHANGED tokenVars

SpanLocationAfter ==
    /\ span.end.character < MaxOffset
    /\ \E c \in AlgAlphabet : span' = Span_location_after(span, c)
    /\ spanOk' = TRUE
    /\ UNCHANGED <<loc, path, mark>>
    /\ UNCHANGED streamVars
    /\ UNCHANGED sourceVars
    /\ UNCHANGED charsVars
    /\ UNCHANGED tokenVars

SpanSpanTo ==
    /\ \E e \in {mark, loc} :
          /\ span' = Span_span_to(span, e)
          /\ spanOk' = LocLE(span.start, e)
    /\ UNCHANGED <<loc, path, mark>>
    /\ UNCHANGED streamVars
    /\ UNCHANGED sourceVars
    /\ UNCHANGED charsVars
    /\ UNCHANGED tokenVars

ExtendedSpan ==
    /\ span.end.character < MaxOffset
    /\ \E c \in AlgAlphabet : span' = extended_span(span, c)
    /\ UNCHANGED <<loc, path, mark, spanOk>>
    /\ UNCHANGED streamVars
    /\ UNCHANGED sourceVars
    /\ UNCHANGED charsVars
    /\ UNCHANGED tokenVars

NextAlgebra ==
    \/ LocationAfter
    \/ SaveMark
    \/ LocationSpanTo
    \/ SpanLocationAfter
    \/ SpanSpanTo
    \/ ExtendedSpan

SpecAlgebra == InitAlgebra /\ [][NextAlgebra]_vars

-----------------------------------------------------------------------------
(* Properties: helpers *)

\* The character(s) a token stands for in the input.
TokenChars(t) ==
    CASE t.kind \in {"Word", "Whitespace"} -> t.text
      [] t.kind = "Newline" -> <<"\n">>
      [] t.kind = "Bullet" -> <<"U+2022">>
      [] t.kind = "TriangularBullet" -> <<"U+2023">>
      [] t.kind = "HyphenBullet" -> <<"U+2043">>
      [] t.kind = "Exclamation" -> <<"!">>
      [] t.kind = "DoubleQuote" -> <<"\"">>
      [] t.kind = "SingleQuote" -> <<"'">>
      [] t.kind = "Hash" -> <<"#">>
      [] t.kind = "Dollar" -> <<"$">>
      [] t.kind = "Percent" -> <<"%">>
      [] t.kind = "Ampersand" -> <<"&">>
      [] t.kind = "Asterisk" -> <<"*">>
      [] t.kind = "Plus" -> <<"+">>
      [] t.kind = "Comma" -> <<",">>
      [] t.kind = "Hyphen" -> <<"-">>
      [] t.kind = "Period" -> <<".">>
      [] t.kind = "ForwardSlash" -> <<"/">>
      [] t.kind = "Colon" -> <<":">>
      [] t.kind = "SemiColon" -> <<";">>
      [] t.kind = "LessThan" -> <<"<">>
      [] t.kind = "Equal" -> <<"=">>
      [] t.kind = "GreaterThan" -> <<">">>
      [] t.kind = "Question" -> <<"?">>
      [] t.kind = "At" -> <<"@">>
      [] t.kind = "BackSlash" -> <<"\\">>
      [] t.kind = "Caret" -> <<"^">>
      [] t.kind = "Underscore" -> <<"_">>
      [] t.kind = "Backtick" -> <<"U+0060">>
      [] t.kind = "Pipe" -> <<"|">>
      [] t.kind = "Tilde" -> <<"~">>
      [] t.kind = "OpenParen" -> <<"(">>
      [] t.kind = "CloseParen" -> <<")">>
      [] t.kind = "OpenBracket" -> <<"[">>
      [] t.kind = "CloseBracket" -> <<"]">>
      [] t.kind = "OpenBrace" -> <<"{">>
      [] t.kind = "CloseBrace" -> <<"}">>

IsTok(item) == item.kind = "tok"

IsWordItem(item) == item.kind = "tok" /\ item.tok[1].kind = "Word"

\* The tokens emitted so far, in emission order.
Toks == SelectSeq(out, IsTok)

\* The characters of the first n emitted tokens, concatenated.
RECURSIVE EmittedChars(_)
EmittedChars(n) ==
    IF n = 0 THEN <<>> ELSE EmittedChars(n - 1) \o TokenChars(Toks[n].tok[1])

IsPrefix(s, t) == Len(s) <= Len(t) /\ s = SubSeq(t, 1, Len(s))

\* Every read_line made so far gave a line or the true end of the input.
ReadWithoutErrors ==
    \A k \in 0..(ts.chars.source.reads - 1) : Outcome(k) = "ok"

\* The last pull returned None.
Exhausted == out # <<>> /\ out[Len(out)].kind = "none"

\* Index of the last newline of s, 0 when it has none.
LastNewline(s) ==
    LET nl == {i \in 1..Len(s) : s[i] = "\n"}
    IN IF nl = {} THEN 0 ELSE CHOOSE i \in nl : \A j \in nl : j <= i

-----------------------------------------------------------------------------
(* Properties of the token stream *)

C2_TokensConcatenateToInput ==
    ReadWithoutErrors =>
        /\ IsPrefix(EmittedChars(Len(Toks)), text)
        /\ (Exhausted => EmittedChars(Len(Toks)) = text)

\* C2 witness: an exhausted error-free stream over a three-character input
\* that holds a Word, a punctuation token and a Word ("a-1").
C2_Witness ==
    /\ ReadWithoutErrors /\ Exhausted
    /\ Len(Toks) = 3
    /\ Toks[1].tok[1].kind = "Word"
    /\ Toks[2].tok[1].kind = "Hyphen"
    /\ Toks[3].tok[1].kind = "Word"

C4_NoneIsFinal ==
    \A i \in 1..(Len(out) - 1) : out[i].kind = "none" => out[i + 1].kind = "none"

\* C5: after the pull that returned the read error the stream is exhausted:
\* every later pull returns None.
C5_ErrIsFinal ==
    \A i \in 1..Len(out) : \A j \in (i + 1)..Len(out) :
        out[i].kind = "err" => out[j].kind = "none"

\* C6: in the buffered-reader character iterator a failed read is the last
\* read: no later pull reads the underlying byte source again.
C6_NoReadAfterFailure ==
    \A k \in 0..(ts.chars.source.reads - 2) : Outcome(k) \notin {"err", "errPartial"}

-----------------------------------------------------------------------------
(* Properties of the sources *)

\* C7: ReaderSource is single-use: over any sequence of chars() calls the
\* first returns an iterator and every later one None, so at most one
\* try_new succeeds, and only as the first taker.
C7_ReaderSourceSingleUse ==
    /\ \A i \in 1..Len(rcalls) : (rcalls[i] = "Some") <=> (i = 1)
    /\ \A i \in 1..Len(opens) : opens[i] = "Ok" => (i = 1 /\ treader = <<>>)
    /\ Cardinality({i \in 1..Len(opens) : opens[i] = "Ok"}) <= 1

\* C7 witness: chars() was asked three times, twice of them by try_new.
C7_Witness == Len(rcalls) >= 3 /\ Len(opens) >= 2

\* C8: TextSource is single-use: after its characters have been obtained
\* once, asking again yields None.
C8_TextSourceSingleUse ==
    \A i \in 1..Len(tcalls) : (tcalls[i] = "Some") <=> (i = 1)

-----------------------------------------------------------------------------
(* Properties of the position algebra *)

\* C9: location_after adds exactly 1 to the character offset; on a newline
\* it adds 1 to row and sets column to 0, on any other character it adds 1
\* to column and leaves row alone.  Hence after any text from the zero
\* location, row is the number of newlines seen and column the number of
\* characters since the last newline.
C9_LocationAfterCountsRowsAndColumns ==
    /\ loc.character = Len(path)
    /\ loc.row = Cardinality({i \in 1..Len(path) : path[i] = "\n"})
    /\ loc.column = Len(path) - LastNewline(path)
    /\ \A c \in Alphabet \cup {"\t", "\r", "U+2022"} :
          LET n == location_after(loc, c)
          IN /\ n.character = loc.character + 1
             /\ (c = "\n" => n.row = loc.row + 1 /\ n.column = 0)
             /\ (c # "\n" => n.row = loc.row /\ n.column = loc.column + 1)

\* C9 witness: the location after "aa\n" is row 1, column 0, offset 3.
C9_Witness == path = <<"a", "a", "\n">> /\ loc = Location(1, 0, 3)

\* C10 as claimed: every Span built through the position algebra has
\* start <= end.
C10_EverySpanOrdered == LocLE(span.start, span.end)

\* C10 amended: a Span has start <= end when every span_to that built it was
\* given an end that is not before the start; location_after on a span
\* always gives an ordered span and extended_span keeps a span ordered.
C10_SpanOrderedUnderPrecondition == spanOk => LocLE(span.start, span.end)

\* C10 witness: an ordered span across a newline, more than one character
\* long, built within the precondition.
C10_Witness ==
    /\ spanOk
    /\ span.end.row > span.start.row
    /\ span.end.character >= span.start.character + 2

-----------------------------------------------------------------------------
(* C11: is_adornment is true of the token of every character of the        *)
(* adornment character set, and false of Newline, Whitespace, Word and the *)
(* three bullet tokens.                                                    *)
C11_AdornmentCharsetCovered ==
    cls # <<>> =>
        /\ (\E c \in ADORNMENT_CHARS : tok = parse_char(c)[1]) => cls[1].adornment
        /\ tok.kind \in {"Newline", "Whitespace", "Word", "Bullet",
                         "TriangularBullet", "HyphenBullet"} => ~cls[1].adornment

-----------------------------------------------------------------------------
\* The place of an ASCII letter in the alphabet, 1 for a or A.
AlphabetPosition(c) ==
    CHOOSE i \in 1..26 : UpperLetters[i] = c \/ LowerLetters[i] = c

IsSingleLetter(t) ==
    /\ t.kind = "Word" /\ Len(t.text) = 1
    /\ t.text[1] \in Range(UpperLetters) \cup Range(LowerLetters)

(* C12: from_numeral returns the first success of Arabic, then Latin, then *)
(* Roman decoding: a Word that is a single ASCII letter gives the letter's *)
(* place in the alphabet, and a Roman value is returned only when Arabic   *)
(* and Latin decoding both give no match.                                  *)
C12_ArabicThenLatinThenRoman ==
    num # <<>> =>
        LET r == num[1]
        IN /\ r.arabic # <<>> => r.numeral = r.arabic
           /\ r.arabic = <<>> /\ r.latin # <<>> => r.numeral = r.latin
           /\ r.arabic = <<>> /\ r.latin = <<>> => r.numeral = r.roman
           /\ IsSingleLetter(tok) => r.numeral = <<AlphabetPosition(tok.text[1])>>

\* Word("C") was decoded: 3 by from_numeral, although it is the Roman 100.
C12_Witness ==
    /\ tok = Word(<<"C">>) /\ num # <<>>
    /\ num[1].numeral = <<3>> /\ num[1].roman = <<100>> /\ num[1].arabic = <<>>

-----------------------------------------------------------------------------
(* C13: for every n from 1 to 3999, from_roman_numeral of the Word holding *)
(* the standard Roman numeral of n, all in uppercase or all in lowercase,  *)
(* is n (XIV gives 14, mcmxcix gives 1999); the empty word gives no match. *)
C13_StandardNumeralsDecode ==
    num # <<>> =>
        /\ numberOf > 0 => num[1].roman = <<numberOf>>
        /\ tok = Word(<<"X", "I", "V">>) => num[1].roman = <<14>>
        /\ tok = Word(<<"m", "c", "m", "x", "c", "i", "x">>) => num[1].roman = <<1999>>
        /\ tok = Word(<<>>) => num[1].roman = <<>>

\* mcmxcix, written from 1999, was decoded to 1999.
C13_Witness ==
    /\ numberOf = 1999
    /\ tok = Word(<<"m", "c", "m", "x", "c", "i", "x">>)
    /\ num # <<>> /\ num[1].roman = <<1999>>

-----------------------------------------------------------------------------
\* The word as from_roman_numeral reads it: in uppercase when it is all in
\* lowercase, as it is otherwise.
AsRead(w) ==
    IF \A i \in 1..Len(w) : w[i] \in Range(LowerLetters)
    THEN [i \in 1..Len(w) |-> UpperLetters[IndexOf(LowerLetters, w[i])]]
    ELSE w

\* n equal characters in a row, from place i on.
RunAt(w, i, n) == i + n - 1 <= Len(w) /\ \A j \in i..(i + n - 1) : w[j] = w[i]

HasRun(w, n) == \E i \in 1..Len(w) : RunAt(w, i, n)

SymbolValue(c) ==
    CASE c = "I" -> 1 [] c = "V" -> 5 [] c = "X" -> 10 [] c = "L" -> 50
      [] c = "C" -> 100 [] c = "D" -> 500 [] c = "M" -> 1000

SubtractivePairs ==
    {<<"I", "V">>, <<"I", "X">>, <<"X", "L">>, <<"X", "C">>, <<"C", "D">>, <<"C", "M">>}

\* A smaller symbol directly before a larger one, at places i and i + 1.
Rises(w, i) == i + 1 <= Len(w) /\ SymbolValue(w[i]) < SymbolValue(w[i + 1])

\* Text that no remaining row of the table can match: a character that is
\* no Roman symbol, a rise that is no subtractive pair, a subtractive pair
\* after a symbol that is not larger than its first, or a subtractive pair
\* followed by a symbol that is not smaller than its first.
LeavesText(w) ==
    \/ \E i \in 1..Len(w) : w[i] \notin RomanLetters
    \/ /\ \A i \in 1..Len(w) : w[i] \in RomanLetters
       /\ \E i \in 1..Len(w) :
            /\ Rises(w, i)
            /\ \/ <<w[i], w[i + 1]>> \notin SubtractivePairs
               \/ i > 1 /\ SymbolValue(w[i - 1]) <= SymbolValue(w[i])
               \/ i + 2 <= Len(w) /\ SymbolValue(w[i + 2]) >= SymbolValue(w[i])

LeftoverExamples ==
    {<<"I", "I", "X">>, <<"I", "X", "I">>, <<"C", "M", "C">>, <<"M", "c", "M">>}

-----------------------------------------------------------------------------
\* A word of zeros only, with or without a sign before them.
ZeroWord(w) ==
    LET body == IF w # <<>> /\ Head(w) = "+" THEN Tail(w) ELSE w
    IN body # <<>> /\ \A i \in 1..Len(body) : body[i] = "0"

(* C15: every numeral decoder gives no match for every token that is not a *)
(* Word and never gives the value 0; Arabic decoding rejects a word whose  *)
(* base-10 value is zero.                                                  *)
C15_NoMatchForNonWordsNeverZero ==
    num # <<>> =>
        LET r == num[1]
            results == {r.arabic, r.latin, r.roman, r.numeral}
        IN /\ tok.kind # "Word" => results = {<<>>}
           /\ <<0>> \notin results
           /\ tok.kind = "Word" /\ ZeroWord(tok.text) => r.arabic = <<>>

\* The word 00 was decoded: no match by any decoder.
C15_Witness ==
    /\ tok = Word(<<"0", "0">>)
    /\ num # <<>> /\ num[1].arabic = <<>> /\ num[1].numeral = <<>>

-----------------------------------------------------------------------------
\* Every read_line the ReaderChars made so far gave a line (whole or cut
\* short): no error, no end of file before the end of text.
ReadsGaveLines ==
    \A i \in 1..rchars.source.reads : Outcome(i - 1) \in {"ok", "short"}

(* C17: the buffered-reader iterator yields the character sequence the     *)
(* in-memory iterator yields over the same text, whatever the line         *)
(* boundaries: it serves buffered characters first, makes one read_line    *)
(* only when its buffer is used up, and returns None exactly when that     *)
(* read gave no character without failing, which on a reader that gives    *)
(* its lines is at the end of the text only.                               *)
C17_ReaderCharsAgreeWithTextChars ==
    /\ \A i \in 1..Len(chist) :
          LET h == chist[i]
          IN /\ h.reads = (IF h.waiting THEN 0 ELSE 1)
             /\ h.kind = "none" <=> (~h.waiting /\ h.lineOk /\ h.lineLen = 0)
             /\ h.kind = "err" <=> (~h.waiting /\ ~h.lineOk)
    /\ ReadsGaveLines =>
          /\ \A i \in 1..Len(chist) :
                /\ chist[i].kind # "err"
                /\ chist[i].kind = "none" => chist[i].yielded = Len(text)
                /\ chist[i].kind = "char" =>
                      /\ chist[i].yielded < Len(text)
                      /\ chist[i].c = <<text[chist[i].yielded + 1]>>
          /\ \A i \in 1..Len(chist) : i <= Len(thist) => chist[i].c = thist[i]

\* Two lines were served by both iterators, then None by both.
C17_Witness ==
    /\ text = <<"a", "\n", "a">> /\ script = <<"short">>
    /\ Len(chist) = 4 /\ Len(thist) = 4
    /\ chist[3].c = <<"a">> /\ chist[4].kind = "none" /\ thist[4] = <<>>

-----------------------------------------------------------------------------
\* The characters of the token in the lookahead buffer, none when it is empty.
BufferChars(buffer) == IF buffer = <<>> THEN <<>> ELSE TokenChars(buffer[1])

\* The last pull ended because the character iterator returned None: its
\* last read_line succeeded and gave no character.
EndOfSource ==
    /\ ts.chars.source.reads > 0
    /\ Outcome(ts.chars.source.reads - 1) \in {"ok", "eof"}
    /\ ts.chars.buffer = <<>>

IsWordChar(c) == parse_char(c) = <<>>

(* C18: on end of source the stream emits the token still held in its      *)
(* lookahead buffer, if any, as the last item and leaves the buffer empty: *)
(* every character received has then been emitted.  On an input read       *)
(* without errors the final token (a trailing Word too) is not lost and    *)
(* every pull after the first None returns None.                           *)
C18_BufferFlushedAtEndOfSource ==
    /\ EndOfSource =>
          /\ ts.buffer = <<>>
          /\ out # <<>> /\ out[Len(out)].kind \in {"tok", "none"}
          /\ EmittedChars(Len(Toks)) = ts.taken
    /\ ReadWithoutErrors =>
          /\ \A i \in 1..(Len(out) - 1) :
                out[i].kind = "none" => out[i + 1].kind = "none"
          /\ Exhausted =>
                /\ EmittedChars(Len(Toks)) = text
                /\ text # <<>> /\ IsWordChar(text[Len(text)]) =>
                      Toks[Len(Toks)].tok[1].kind = "Word"

\* The input -a read without errors: Hyphen, then the trailing Word from the
\* buffer at the end of the source, then None.
C18_Witness ==
    /\ text = <<"-", "a">> /\ ReadWithoutErrors /\ EndOfSource
    /\ Len(out) = 3
    /\ out[1].tok = <<Tok("Hyphen")>>
    /\ out[2].tok = <<Word(<<"a">>)>>
    /\ out[3].kind = "none"
    /\ ts.buffer = <<>>

-----------------------------------------------------------------------------
\* The characters the stream received in the step from this state to the
\* next, and the item that step returned.
Got == SubSeq(ts'.taken, Len(ts.taken) + 1, Len(ts'.taken))

Returned == out'[Len(out')]

Front(s) == SubSeq(s, 1, Len(s) - 1)

(* C19: when a pull receives a character that classifies as a concrete     *)
(* token: with nothing buffered the pull returns that token at once,       *)
(* having consumed that one character, and the buffer stays empty; with a  *)
(* token buffered (as it was before the pull, or a Word grown or started   *)
(* by the word characters the pull received before) the pull returns the   *)
(* buffered token and the buffer then holds exactly the new token.  The    *)
(* buffer never holds more than one token.                                 *)
C19_LookaheadTransitions ==
    [][/\ Len(ts'.buffer) <= 1
       /\ (out' # out /\ Got # <<>> /\ ~IsWordChar(Got[Len(Got)])) =>
             LET token == parse_char(Got[Len(Got)])
                 held == BufferChars(ts.buffer) \o Front(Got)
             IN IF held = <<>>
                THEN /\ Len(Got) = 1
                     /\ Returned.tok = token
                     /\ ts'.buffer = <<>>
                ELSE /\ Returned.kind = "tok"
                     /\ Returned.tok = (IF Front(Got) = <<>> THEN ts.buffer
                                        ELSE <<Word(held)>>)
                     /\ ts'.buffer = token]_vars

\* The input -a- : Hyphen returned at once from an empty buffer, then the
\* Word returned when the second hyphen arrived, which is now buffered.
C19_Witness ==
    /\ text = <<"-", "a", "-">>
    /\ Len(out) = 2
    /\ out[1].tok = <<Tok("Hyphen")>>
    /\ out[2].tok = <<Word(<<"a">>)>>
    /\ ts.buffer = <<Tok("Hyphen")>>
    /\ ts.taken = text

-----------------------------------------------------------------------------
(* C20 as stated: the pull that returns Err leaves the lookahead buffer     *)
(* exactly as it was before the pull.                                      *)
C20_ErrLeavesBufferUnchanged ==
    [][(out' # out /\ Returned.kind = "err") => ts'.buffer = ts.buffer]_vars

(* C20, amended: a read error loses nothing of the buffered token.  The     *)
(* pull that returns Err leaves in the buffer what was there before the    *)
(* pull, extended by the word characters the pull received before the read *)
(* failed (exactly as it was if it received none); and in every state the  *)
(* emitted tokens followed by the buffered one spell the characters        *)
(* received, so the token is emitted once and in its place.                *)
C20_ErrKeepsBufferedToken ==
    [][/\ EmittedChars(Len(Toks))' \o BufferChars(ts'.buffer) = ts'.taken
       /\ (out' # out /\ Returned.kind = "err") =>
             /\ BufferChars(ts'.buffer) = BufferChars(ts.buffer) \o Got
             /\ \A i \in 1..Len(Got) : IsWordChar(Got[i])
             /\ Got = <<>> => ts'.buffer = ts.buffer
             /\ Got # <<>> => ts'.buffer[1].kind = "Word"
             /\ Toks' = Toks]_vars

\* The input a- whose second read fails: Word, then Err with the Hyphen
\* buffered, then the Hyphen, then None.
C20_Witness ==
    /\ text = <<"a", "-">> /\ script = <<"ok", "err">>
    /\ Len(out) = 4
    /\ out[1].tok = <<Word(<<"a">>)>>
    /\ out[2].kind = "err"
    /\ out[3].tok = <<Tok("Hyphen")>>
    /\ out[4].kind = "none"

-----------------------------------------------------------------------------
\* No read_line made so far failed after taking characters from R.
NothingLostByReader ==
    \A k \in 0..(ts.chars.source.reads - 1) : Outcome(k) # "errPartial"

\* The characters the character iterator has handed out: those R gave,
\* less those still waiting in the line buffer.
HandedOut == ts.chars.source.pos - (Len(ts.chars.buffer) - ts.chars.next)

\* How far the stream has read past the end of the last token it emitted.
PastLastToken == Len(ts.taken) - Len(EmittedChars(Len(Toks)))

(* C21 as stated: the emitted tokens followed by the buffered token spell  *)
(* exactly the prefix of the input taken from the character source, and    *)
(* the stream is never more than one character past the end of the last    *)
(* token it returned.                                                      *)
C21_PrefixAndOneCharacterAhead ==
    /\ EmittedChars(Len(Toks)) \o BufferChars(ts.buffer) = ts.taken
    /\ NothingLostByReader =>
          /\ IsPrefix(ts.taken, text)
          /\ Len(ts.taken) = HandedOut
    /\ PastLastToken <= 1

(* C21, amended: the emitted tokens followed by the buffered token spell   *)
(* exactly the prefix of the input taken from the character source; after  *)
(* a pull that returned a token or None the stream is at most one          *)
(* character past the end of the last token it returned, and after a pull  *)
(* that returned Err it is past it by the Word it holds in the buffer.     *)
C21_PrefixInvariant ==
    /\ EmittedChars(Len(Toks)) \o BufferChars(ts.buffer) = ts.taken
    /\ NothingLostByReader =>
          /\ IsPrefix(ts.taken, text)
          /\ Len(ts.taken) = HandedOut
    /\ out # <<>> /\ out[Len(out)].kind \in {"tok", "none"} => PastLastToken <= 1
    /\ PastLastToken > 1 => ts.buffer # <<>> /\ ts.buffer[1].kind = "Word"

\* The input a-a after two pulls: Word and Hyphen emitted, the second Word
\* buffered, one character past the Hyphen.
C21_Witness ==
    /\ text = <<"a", "-", "a">> /\ ReadWithoutErrors
    /\ Len(out) = 2
    /\ out[1].tok = <<Word(<<"a">>)>>
    /\ out[2].tok = <<Tok("Hyphen")>>
    /\ ts.buffer = <<Word(<<"a">>)>>
    /\ ts.taken = text

-----------------------------------------------------------------------------
(* C22: from_roman_numeral accepts only standard-form numerals: whenever   *)
(* it returns n for an all-uppercase word, the word is the standard Roman  *)
(* numeral of n (so no two uppercase words decode to the same value, and   *)
(* D, L or V is never followed by its own subtractive pair CD, XL or IV).  *)
C22_OnlyStandardForm ==
    (/\ num # <<>> /\ tok.kind = "Word"
     /\ \A i \in 1..Len(tok.text) : is_ascii_uppercase(tok.text[i])
     /\ num[1].roman # <<>>)
        => tok.text = StandardRoman(num[1].roman[1])

-----------------------------------------------------------------------------
\* R never fails and never reports its end before the end of the text.
ReadsNeverFail == \A i \in 1..Len(script) : script[i] = "ok"

(* C23: for every finite input whose reads never fail, a caller that keeps *)
(* pulling eventually gets None: every pull returns after receiving at     *)
(* least one character or returns at the end of the source, the tokens     *)
(* emitted are never more than the characters received, which are never    *)
(* more than the input has, and None comes right after the last token.     *)
C23_PullsReachNone ==
    /\ ReadsNeverFail => <>Exhausted
    /\ [][(out' # out /\ ReadWithoutErrors') =>
             \/ Got # <<>>
             \/ EndOfSource' /\ ts'.taken = text /\ Returned.kind # "err"]_vars
    /\ [](ReadWithoutErrors =>
             /\ Len(Toks) <= Len(ts.taken)
             /\ Len(ts.taken) <= Len(text)
             /\ Len(out) > Len(text) => out[Len(Toks) + 1].kind = "none")

\* The input -a- read to its end: three tokens for three characters, then
\* None.
C23_Witness ==
    /\ text = <<"-", "a", "-">> /\ ReadsNeverFail /\ ReadWithoutErrors
    /\ Len(out) = 4 /\ Len(Toks) = 3
    /\ Exhausted

====
